---- MODULE Spec2Model ----
(***************************************************************************)
(* Model of the resume rendering service: the ReportLab based PDFGenerator *)
(* (services/pdf_generator.py), the settings validation that guards it     *)
(* (utils/validators.py) and the generate-resume endpoint that owns the    *)
(* process-wide generator instance (api/endpoints.py).                     *)
(*                                                                         *)
(* Python strings whose characters the code inspects (theme color, font    *)
(* size, document size) are sequences of one-character strings; strings    *)
(* the code only copies are TLA+ strings.  The PDF bytes are abstracted to *)
(* what determines them: page size, margins and the story (the sequence of *)
(* flowables with the fonts, sizes and colors they carry).                 *)
(***************************************************************************)
EXTENDS Integers, Sequences, FiniteSets, TLC

\* ------------------------------------------------------------------------
\* Python values
\* ------------------------------------------------------------------------

\* None for a character-sequence valued field (no real string has this shape)
NoneStr == <<"None">>

\* None for an opaque text field
NoneText == "<None>"

\* None for Optional[Dict[str, bool]] and Optional[Dict[str, str]]
NoneShow == [k \in {"<None>"} |-> FALSE]

NoneHeading == [k \in {"<None>"} |-> "<None>"]

\* Python truthiness of an optional character sequence / text
TruthyStr(s) == s # NoneStr /\ s # <<>>

TruthyText(t) == t # NoneText /\ t # ""

\* the value of an expression bound once: The({ body(x) : x \in {e} })
The(S) == CHOOSE x \in S : TRUE

\* (d or {}).get(key, default)
DictGet(d, none, key, default) ==
    IF d = none THEN default
    ELSE IF key \in DOMAIN d THEN d[key] ELSE default

DecDigit ==
    ("0" :> 0) @@ ("1" :> 1) @@ ("2" :> 2) @@ ("3" :> 3) @@ ("4" :> 4) @@
    ("5" :> 5) @@ ("6" :> 6) @@ ("7" :> 7) @@ ("8" :> 8) @@ ("9" :> 9)

HexDigit ==
    DecDigit @@
    ("a" :> 10) @@ ("b" :> 11) @@ ("c" :> 12) @@ ("d" :> 13) @@ ("e" :> 14) @@
    ("f" :> 15) @@ ("A" :> 10) @@ ("B" :> 11) @@ ("C" :> 12) @@ ("D" :> 13) @@
    ("E" :> 14) @@ ("F" :> 15)

DigitsOf(base) == IF base = 16 THEN HexDigit ELSE DecDigit

\* str.lower() on the characters that occur in document sizes and prefixes
LowerChar(c) ==
    CASE c = "A" -> "a" [] c = "L" -> "l" [] c = "X" -> "x"
      [] OTHER -> c

Lower(s) == [i \in 1..Len(s) |-> LowerChar(s[i])]

\* str.isdigit(): non-empty and every character a digit
IsDigit(s) == Len(s) > 0 /\ \A i \in 1..Len(s) : s[i] \in DOMAIN DecDigit

RECURSIVE DigitsValue(_, _)
DigitsValue(s, base) ==
    IF Len(s) = 0 THEN 0
    ELSE DigitsValue(SubSeq(s, 1, Len(s) - 1), base) * base
         + DigitsOf(base)[s[Len(s)]]

\* int(s, base): optional sign, then at least one digit of the base,
\* otherwise ValueError
PyIntBody(s) == IF Len(s) > 0 /\ s[1] \in {"-", "+"} THEN Tail(s) ELSE s

PyIntOk(s, base) ==
    /\ Len(PyIntBody(s)) > 0
    /\ \A i \in 1..Len(PyIntBody(s)) : PyIntBody(s)[i] \in DOMAIN DigitsOf(base)

PyInt(s, base) ==
    IF Len(s) > 0 /\ s[1] = "-"
    THEN 0 - DigitsValue(PyIntBody(s), base)
    ELSE DigitsValue(PyIntBody(s), base)

\* ------------------------------------------------------------------------
\* Constants of the program
\* ------------------------------------------------------------------------

SectionKeys == <<"workExperiences", "educations", "projects", "skills", "custom">>

DefaultHeading ==
    [workExperiences |-> "WORK EXPERIENCE", educations |-> "EDUCATION",
     projects |-> "PROJECTS", skills |-> "SKILLS", custom |-> "ADDITIONAL"]

\* reportlab.lib.pagesizes, in whole points (A4 is 210mm x 297mm)
letter == [name |-> "letter", width |-> 612, height |-> 792]

A4 == [name |-> "A4", width |-> 595, height |-> 842]

\* 0.5 * inch, in points
HalfInch == 36

MIN_FONT_SIZE == 8

MAX_FONT_SIZE == 16

VALID_DOCUMENT_SIZES == { <<"L", "e", "t", "t", "e", "r">>, <<"A", "4">> }

BuiltinFonts == {"Helvetica", "Helvetica-Bold"}

\* constants.COLOR_PATTERN  ^#([A-Fa-f0-9]{6}|[A-Fa-f0-9]{3})$
COLOR_PATTERN(s) ==
    /\ Len(s) \in {4, 7}
    /\ s[1] = "#"
    /\ \A i \in 2..Len(s) : s[i] \in DOMAIN HexDigit

\* ------------------------------------------------------------------------
\* Style resolution: PDFGenerator._get_styles
\* ------------------------------------------------------------------------

\* reportlab.lib.colors.HexColor as called at pdf_generator.py:126:
\* '#' or '0x' prefix selects base 16, anything else is read in base 10;
\* None or a string int() rejects raises.  The color is the low 24 bits.
HexColorIsHex(val) ==
    \/ Len(val) > 0 /\ val[1] = "#"
    \/ Len(val) >= 2 /\ Lower(SubSeq(val, 1, 2)) = <<"0", "x">>

HexColorDigits(val) ==
    IF Len(val) > 0 /\ val[1] = "#" THEN Tail(val)
    ELSE IF HexColorIsHex(val) THEN SubSeq(val, 3, Len(val))
    ELSE val

HexColorBase(val) == IF HexColorIsHex(val) THEN 16 ELSE 10

HexColorRaises(val) ==
    val = NoneStr \/ ~PyIntOk(HexColorDigits(val), HexColorBase(val))

HexColor(val) == PyInt(HexColorDigits(val), HexColorBase(val)) % 16777216

\* colors.black
black == 0

\* The roles of getSampleStyleSheet() the generator inherits from or looks
\* up; the sample sheet already has a BodyText style (Normal, 10pt)
SampleStyleSheet ==
    [Normal   |-> [fontName |-> "Helvetica", fontSize |-> 10, textColor |-> black],
     Heading1 |-> [fontName |-> "Helvetica-Bold", fontSize |-> 18, textColor |-> black],
     Heading2 |-> [fontName |-> "Helvetica-Bold", fontSize |-> 14, textColor |-> black],
     BodyText |-> [fontName |-> "Helvetica", fontSize |-> 10, textColor |-> black]]

\* if name not in styles: styles.add(ParagraphStyle(name=...))
AddStyle(styles, name, style) ==
    IF name \in DOMAIN styles THEN styles ELSE styles @@ (name :> style)

\* self._cached_styles not set yet
NoStyles == [unset |-> TRUE]

OpenSans == <<"O", "p", "e", "n", "S", "a", "n", "s">>

\* settings.fontFamily if settings.fontFamily in ['OpenSans'] else 'Helvetica'
RegularFont(fontFamily) == IF fontFamily = OpenSans THEN "OpenSans" ELSE "Helvetica"

\* f'{font_family}-Bold' if font_family == 'OpenSans' else 'Helvetica-Bold'
BoldFont(fontFamily) ==
    IF fontFamily = OpenSans THEN "OpenSans-Bold" ELSE "Helvetica-Bold"

\* settings.fontSize.isdigit() raises AttributeError on None
FontSizeRaises(fontSize) == fontSize = NoneStr

\* int(settings.fontSize) if settings.fontSize.isdigit() else 11
FontSize(fontSize) == IF IsDigit(fontSize) THEN PyInt(fontSize, 10) ELSE 11

BuildStyles(settings) ==
    LET theme_color == HexColor(settings.themeColor)
        font_family == RegularFont(settings.fontFamily)
        bold_family == BoldFont(settings.fontFamily)
        font_size   == FontSize(settings.fontSize)
        s1 == AddStyle(SampleStyleSheet, "Name",
                [fontName |-> bold_family, fontSize |-> 20, textColor |-> theme_color])
        s2 == AddStyle(s1, "Contact",
                [fontName |-> font_family, fontSize |-> font_size, textColor |-> black])
        s3 == AddStyle(s2, "SectionHeading",
                [fontName |-> bold_family, fontSize |-> font_size + 2,
                 textColor |-> theme_color])
        s4 == AddStyle(s3, "JobTitle",
                [fontName |-> bold_family, fontSize |-> font_size, textColor |-> black])
        s5 == AddStyle(s4, "Company",
                [fontName |-> font_family, fontSize |-> font_size, textColor |-> black])
    IN  AddStyle(s5, "BodyText",
                [fontName |-> font_family, fontSize |-> font_size, textColor |-> black])

\* Result of a call: raised, the returned style sheet, and the cache it leaves
get_styles(cache, settings) ==
    IF cache # NoStyles
    THEN [raised |-> FALSE, styles |-> cache, cache |-> cache]
    ELSE IF HexColorRaises(settings.themeColor) \/ FontSizeRaises(settings.fontSize)
    THEN [raised |-> TRUE, styles |-> NoStyles, cache |-> cache]
    ELSE The({ [raised |-> FALSE, styles |-> styles, cache |-> styles] :
                 styles \in {BuildStyles(settings)} })

\* ------------------------------------------------------------------------
\* Flowables of the story
\* ------------------------------------------------------------------------

Paragraph(section, pieces, role, styles) ==
    [type |-> "Paragraph", section |-> section, role |-> role, text |-> pieces,
     fontName |-> styles[role].fontName, boldFontName |-> styles[role].fontName,
     fontSize |-> styles[role].fontSize, textColor |-> styles[role].textColor,
     height |-> 0]

Spacer(section, h) ==
    [type |-> "Spacer", section |-> section, role |-> "", text |-> <<>>,
     fontName |-> "Helvetica", boldFontName |-> "Helvetica", fontSize |-> 0,
     textColor |-> black, height |-> h]

\* Table + TableStyle of an item header: the FONTNAME and FONTSIZE commands
\* are computed from the settings, not from the style sheet
Table(section, cells, settings) ==
    [type |-> "Table", section |-> section, role |-> "ItemHeader", text |-> cells,
     fontName |-> RegularFont(settings.fontFamily),
     boldFontName |-> BoldFont(settings.fontFamily),
     fontSize |-> FontSize(settings.fontSize), textColor |-> black, height |-> 0]

\* sep.join(parts) where every part is a sequence of pieces
RECURSIVE Join(_, _)
Join(sep, parts) ==
    IF Len(parts) = 0 THEN <<>>
    ELSE IF Len(parts) = 1 THEN parts[1]
    ELSE parts[1] \o <<sep>> \o Join(sep, Tail(parts))

\* the bullet prefix (U+2022 and a space) and the contact separator
BULLET == "(U+2022) "

CONTACT_SEP == " (U+2022) "

\* variant: the bullets are emitted last description first
Bullets_reversed(section, descriptions, styles) ==
    [i \in 1..Len(descriptions) |->
        Paragraph(section, <<BULLET, descriptions[Len(descriptions) + 1 - i]>>,
                  "BodyText", styles)]

\* one bullet Paragraph in BodyText per description
Bullets(section, descriptions, styles) ==
    [i \in 1..Len(descriptions) |->
        Paragraph(section, <<BULLET, descriptions[i]>>, "BodyText", styles)]

RECURSIVE Flatten(_)
Flatten(seqs) == IF Len(seqs) = 0 THEN <<>> ELSE seqs[1] \o Flatten(Tail(seqs))

\* ------------------------------------------------------------------------
\* Section builders.  Each returns whether it raised, the flowables it
\* produced and the style cache it leaves on the generator.
\* ------------------------------------------------------------------------

Raised(cache) == [raised |-> TRUE, story |-> <<>>, cache |-> cache]

Built(story, cache) == [raised |-> FALSE, story |-> story, cache |-> cache]

Opt(cond, piece) == IF cond THEN <<piece>> ELSE <<>>

build_header(cache, personal_info, settings) ==
    LET contact_parts ==
            Opt(TruthyText(personal_info.email), <<personal_info.email>>)
            \o Opt(TruthyText(personal_info.phone), <<personal_info.phone>>)
            \o Opt(TruthyText(personal_info.url),
                   <<"<link href=\"", personal_info.url, "\">",
                     personal_info.url, "</link>">>)
            \o Opt(TruthyText(personal_info.location), <<personal_info.location>>)
    IN  The({
        IF st.raised THEN Raised(st.cache)
        ELSE Built(
            <<Paragraph("header", <<personal_info.name>>, "Name", st.styles)>>
            \o Opt(Len(contact_parts) > 0,
                   Paragraph("header", Join(CONTACT_SEP, contact_parts),
                             "Contact", st.styles))
            \o (IF TruthyText(personal_info.summary)
                THEN <<Spacer("header", 6),
                       Paragraph("header", <<personal_info.summary>>,
                                 "BodyText", st.styles)>>
                ELSE <<>>)
            \o <<Spacer("header", 12)>>,
            st.cache)
        : st \in {get_styles(cache, settings)} })

\* variant: the heading is always the hard-coded one
SectionHeading_hardCoded(key, settings, styles) ==
    Paragraph(key, <<DefaultHeading[key]>>, "SectionHeading", styles)

SectionHeading(key, settings, styles) ==
    Paragraph(key,
              <<DictGet(settings.formToHeading, NoneHeading, key, DefaultHeading[key])>>,
              "SectionHeading", styles)

\* heading, then per item: header table (cells[i]), bullets, Spacer(1, 6).  The table
\* style evaluates settings.fontSize.isdigit(), which raises on None.
ItemSection(cache, key, items, settings, cells) ==
    The({
        IF st.raised THEN Raised(st.cache)
        ELSE IF Len(items) > 0 /\ FontSizeRaises(settings.fontSize)
        THEN Raised(st.cache)
        ELSE Built(<<SectionHeading(key, settings, st.styles)>>
                   \o Flatten([i \in 1..Len(items) |->
                          <<Table(key, cells[i], settings)>>
                          \o Bullets(key, items[i].descriptions, st.styles)
                          \o <<Spacer(key, 6)>>]),
                   st.cache)
        : st \in {get_styles(cache, settings)} })

WorkCells(exp) == <<exp.jobTitle, exp.date, exp.company, "">>

build_work_experience_section(cache, work_experiences, settings) ==
    ItemSection(cache, "workExperiences", work_experiences, settings,
                [i \in 1..Len(work_experiences) |-> WorkCells(work_experiences[i])])

\* degree_text = degree + " | GPA: <gpa>" when a gpa is given
EducationCells(edu) ==
    <<edu.degree>>
    \o (IF TruthyText(edu.gpa) THEN <<" | GPA: ", edu.gpa>> ELSE <<>>)
    \o <<edu.date, edu.school, "">>

build_education_section(cache, educations, settings) ==
    ItemSection(cache, "educations", educations, settings,
                [i \in 1..Len(educations) |-> EducationCells(educations[i])])

ProjectCells(project) == <<project.name, project.date>>

build_projects_section(cache, projects, settings) ==
    ItemSection(cache, "projects", projects, settings,
                [i \in 1..Len(projects) |-> ProjectCells(projects[i])])

\* variant: the skills are joined by blanks
SkillText_blankJoined(skill_group) ==
    <<"<b>", skill_group.category, ":</b> ">>
    \o Join(" ", [i \in 1..Len(skill_group.skills) |-> <<skill_group.skills[i]>>])

\* "<b>category:</b> " followed by ', '.join(skills), one Paragraph per group
SkillText(skill_group) ==
    <<"<b>", skill_group.category, ":</b> ">>
    \o Join(", ", [i \in 1..Len(skill_group.skills) |-> <<skill_group.skills[i]>>])

build_skills_section(cache, skills, settings) ==
    The({
        IF st.raised THEN Raised(st.cache)
        ELSE Built(<<SectionHeading("skills", settings, st.styles)>>
                   \o [i \in 1..Len(skills) |->
                        Paragraph("skills", SkillText(skills[i]), "BodyText",
                                  st.styles)]
                   \o <<Spacer("skills", 6)>>,
                   st.cache)
        : st \in {get_styles(cache, settings)} })

build_custom_section(cache, descriptions, settings) ==
    The({
        IF st.raised THEN Raised(st.cache)
        ELSE Built(<<SectionHeading("custom", settings, st.styles)>>
                   \o Bullets("custom", descriptions, st.styles)
                   \o <<Spacer("custom", 6)>>,
                   st.cache)
        : st \in {get_styles(cache, settings)} })

\* ------------------------------------------------------------------------
\* Request parsing: models.resume_models.ResumeSettings / ResumeData
\* ------------------------------------------------------------------------

\* a key that is not present in the request JSON
AbsentStr == <<"absent">>

AbsentShow == [k \in {"<absent>"} |-> FALSE]

AbsentHeading == [k \in {"<absent>"} |-> "<absent>"]

\* no section order in the request
NoOrder == <<>>

DefaultShow == [k \in {SectionKeys[i] : i \in 1..5} |-> TRUE]

\* A field absent from the JSON takes the Field default, an explicit null
\* stays None; keys the model does not declare (such as a section order)
\* are dropped.
ResumeSettings(raw) ==
    [themeColor    |-> IF raw.themeColor = AbsentStr
                       THEN <<"#", "1", "f", "2", "9", "3", "7">> ELSE raw.themeColor,
     fontFamily    |-> IF raw.fontFamily = AbsentStr THEN OpenSans ELSE raw.fontFamily,
     fontSize      |-> IF raw.fontSize = AbsentStr THEN <<"1", "1">> ELSE raw.fontSize,
     documentSize  |-> IF raw.documentSize = AbsentStr
                       THEN <<"L", "e", "t", "t", "e", "r">> ELSE raw.documentSize,
     formToHeading |-> IF raw.formToHeading = AbsentHeading
                       THEN DefaultHeading ELSE raw.formToHeading,
     formToShow    |-> IF raw.formToShow = AbsentShow
                       THEN DefaultShow ELSE raw.formToShow]

\* str.strip() on the texts that occur in requests: a text of blanks becomes
\* empty, a padded text loses its padding, any other text has none
Strip(t) ==
    CASE t = " " -> ""
      [] t = " Rust " -> "Rust"
      [] OTHER -> t

NotEmpty(t) == t # ""

\* [x.strip() for x in v if x.strip()]
StripAll(v) == SelectSeq([i \in 1..Len(v) |-> Strip(v[i])], NotEmpty)

\* the validator of WorkExperience.descriptions; Education, Project and
\* Custom descriptions have none
WorkExperience(raw) == [raw EXCEPT !.descriptions = StripAll(raw.descriptions)]

\* the validator of Skill.skills
Skill(raw) == [raw EXCEPT !.skills = StripAll(raw.skills)]

ResumeData(req) ==
    [personalInfo    |-> req.personalInfo,
     workExperiences |-> [i \in 1..Len(req.workExperiences) |->
                            WorkExperience(req.workExperiences[i])],
     educations      |-> req.educations,
     projects        |-> req.projects,
     skills          |-> [i \in 1..Len(req.skills) |-> Skill(req.skills[i])],
     custom          |-> req.custom,
     settings        |-> ResumeSettings(req.settings)]

\* ------------------------------------------------------------------------
\* PDFGenerator.generate_resume_pdf
\* ------------------------------------------------------------------------

\* size.lower() == "a4" gives A4, every other string gives letter
get_page_size(size) == IF Lower(size) = <<"a", "4">> THEN A4 ELSE letter

NoPage == [name |-> "", width |-> 0, height |-> 0]

NoResult ==
    [kind |-> "none", message |-> "", pagesize |-> NoPage, margin |-> 0,
     story |-> <<>>, pages |-> <<>>]

\* raise Exception(f"PDF generation failed: {str(e)}")
Failure(cause) ==
    [kind |-> "error", message |-> "PDF generation failed: " \o cause,
     pagesize |-> NoPage, margin |-> 0, story |-> <<>>, pages |-> <<>>]

\* the bytes of buffer.getvalue() after doc.build(story)
PdfBytes(pagesize, story, pages) ==
    [kind |-> "pdf", message |-> "", pagesize |-> pagesize, margin |-> HalfInch,
     story |-> story, pages |-> pages]

\* variant: the visibility flag is not consulted
ShowSection_ignoreFlag(settings, key, items) == Len(items) > 0

\* (settings.formToShow or {}).get(key, True) and <items>
ShowSection(settings, key, items) ==
    DictGet(settings.formToShow, NoneShow, key, TRUE) /\ Len(items) > 0

\* doc.build looks every font name up in pdfmetrics; a name that is neither
\* built in nor registered by setup_fonts raises, and so does a LayoutError
FontsUsed(story) ==
    {story[i].fontName : i \in 1..Len(story)}
    \cup {story[i].boldFontName : i \in 1..Len(story)}

BuildRaises(fonts, story) == ~(FontsUsed(story) \subseteq BuiltinFonts \cup fonts)

\* ------------------------------------------------------------------------
\* doc.build(story): SimpleDocTemplate flows the story, top to bottom, into
\* one frame per page.  Heights are in points.
\* ------------------------------------------------------------------------

\* the frame is the page inside the margins, less its own padding
FramePadding == 6

FrameHeight(pagesize) == pagesize.height - 2 * HalfInch - 2 * FramePadding

FrameWidth(pagesize) == pagesize.width - 2 * HalfInch - 2 * FramePadding

\* texts that stand for long descriptions
LongText == "a description of 300 characters"

HugeText == "a description of 7000 characters"

\* len(text); every other text of the model is a short one
CharsOf(text) ==
    CASE text = LongText -> 300
      [] text = HugeText -> 7000
      [] OTHER -> 10

RECURSIVE TotalChars(_)
TotalChars(pieces) ==
    IF Len(pieces) = 0 THEN 0 ELSE CharsOf(pieces[1]) + TotalChars(Tail(pieces))

\* the lines a paragraph is wrapped into, for a mean glyph width of half
\* the font size
WrappedLines(b, width) ==
    LET perLine == (2 * width) \div b.fontSize
        lines == (TotalChars(b.text) + perLine - 1) \div perLine
    IN  IF lines < 1 THEN 1 ELSE lines

\* leading and attached space of the paragraph styles: the custom styles set
\* a font size but inherit the leading of their parent
Leading(role) ==
    CASE role = "Name" -> 22
      [] role = "SectionHeading" -> 18
      [] OTHER -> 12

SpaceBefore(role) ==
    CASE role = "SectionHeading" -> 12
      [] role = "BodyText" -> 6
      [] OTHER -> 0

SpaceAfter(role) ==
    CASE role = "Name" -> 6
      [] role = "Contact" -> 12
      [] role = "SectionHeading" -> 6
      [] OTHER -> 0

\* a header table has two rows, a project table one; a row is one line of
\* the default leading plus TOPPADDING and BOTTOMPADDING
TableRows(b) == IF b.section = "projects" THEN 1 ELSE 2

RowHeight == 12 + 2 + 2

\* A flowable as the frame sees it: `lines` units of height `unit` starting
\* at line `first` of block `block`.  `least` is the number of lines that
\* must fit for the flowable to split (a Paragraph refuses to leave a single
\* line behind, a Table splits between rows, a Spacer does not split).
Fragment(story, i, width) ==
    LET b == story[i]
    IN  CASE b.type = "Spacer" ->
               [block |-> i, first |-> 1, lines |-> 1, unit |-> b.height, least |-> 0,
                before |-> 0, after |-> 0, postponed |-> FALSE]
          [] b.type = "Table" ->
               [block |-> i, first |-> 1, lines |-> TableRows(b), unit |-> RowHeight,
                least |-> 1, before |-> 0, after |-> 0, postponed |-> FALSE]
          [] OTHER ->
               [block |-> i, first |-> 1, lines |-> WrappedLines(b, width),
                unit |-> Leading(b.role), least |-> 2,
                before |-> SpaceBefore(b.role), after |-> SpaceAfter(b.role),
                postponed |-> FALSE]

Placed(f, n) == [block |-> f.block, first |-> f.first, last |-> f.first + n - 1]

\* handle_flowable for the head of the queue: Frame.add places it when it
\* fits below the space it asks for; otherwise Frame.split places the lines
\* that fit and puts the rest back; otherwise the flowable is postponed to
\* the next page, and a flowable postponed twice is a LayoutError.
FlowStep(height, s) ==
    LET f == Head(s.queue)
        space == IF s.atTop THEN 0
                 ELSE IF f.before > s.prevAfter THEN f.before - s.prevAfter ELSE 0
        avail == s.room - space
        fit   == IF avail > 0 THEN avail \div f.unit ELSE 0
    IN  IF avail > 0 /\ f.lines * f.unit <= avail
        THEN [s EXCEPT !.queue = Tail(s.queue),
                       !.page = Append(s.page, Placed(f, f.lines)),
                       !.room = avail - f.lines * f.unit - f.after,
                       !.atTop = FALSE,
                       !.prevAfter = f.after]
        ELSE IF f.least > 0 /\ fit >= f.least /\ fit < f.lines
        THEN [s EXCEPT !.queue = <<[f EXCEPT !.first = f.first + fit,
                                            !.lines = f.lines - fit,
                                            !.postponed = FALSE]>>
                                 \o Tail(s.queue),
                       !.page = Append(s.page, Placed(f, fit)),
                       !.room = avail - fit * f.unit - f.after,
                       !.atTop = FALSE,
                       !.prevAfter = f.after]
        ELSE IF f.postponed
        THEN [s EXCEPT !.raised = TRUE]
        ELSE [s EXCEPT !.queue = <<[f EXCEPT !.postponed = TRUE]>> \o Tail(s.queue),
                       !.pages = Append(s.pages, s.page),
                       !.page = <<>>,
                       !.room = height,
                       !.atTop = TRUE,
                       !.prevAfter = 0]

\* the build loop ends when the queue is empty or a LayoutError was raised
FlowDone(s) == s.raised \/ Len(s.queue) = 0

\* up to n iterations of the build loop, halving n to keep the nesting low
RECURSIVE FlowSteps(_, _, _)
FlowSteps(height, st, n) ==
    The({ IF FlowDone(s) THEN s
          ELSE IF n = 1 THEN FlowStep(height, s)
          ELSE FlowSteps(height, FlowSteps(height, s, n \div 2), n - n \div 2) :
            s \in {st} })

\* the build loop, run to its end
RECURSIVE Flow(_, _, _)
Flow(height, st, n) ==
    The({ IF FlowDone(s) THEN s ELSE Flow(height, s, 2 * n) :
            s \in {FlowSteps(height, st, n)} })

\* the pages of the document, each the sequence of what was placed on it
Paginate(pagesize, story) ==
    The({ [raised |-> end.raised, pages |-> Append(end.pages, end.page)] :
            end \in { Flow(FrameHeight(pagesize),
                           [queue |-> [i \in 1..Len(story) |->
                                         Fragment(story, i, FrameWidth(pagesize))],
                            room |-> FrameHeight(pagesize), atTop |-> TRUE,
                            prevAfter |-> 0, pages |-> <<>>, page |-> <<>>,
                            raised |-> FALSE],
                           16) } })

\* the builder calls of the try block, in the order the code makes them,
\* each starting from the cache its predecessor left; a section that is
\* hidden or empty is skipped
BuildParts(cache, resume_data) ==
    LET settings == resume_data.settings
        S1 == { <<h>> : h \in {build_header(cache, resume_data.personalInfo,
                                            settings)} }
        S2 == { Append(ps,
                  IF ShowSection(settings, "workExperiences",
                                 resume_data.workExperiences)
                  THEN build_work_experience_section(
                           ps[1].cache, resume_data.workExperiences, settings)
                  ELSE Built(<<>>, ps[1].cache)) : ps \in S1 }
        S3 == { Append(ps,
                  IF ShowSection(settings, "educations", resume_data.educations)
                  THEN build_education_section(
                           ps[2].cache, resume_data.educations, settings)
                  ELSE Built(<<>>, ps[2].cache)) : ps \in S2 }
        S4 == { Append(ps,
                  IF ShowSection(settings, "projects", resume_data.projects)
                  THEN build_projects_section(
                           ps[3].cache, resume_data.projects, settings)
                  ELSE Built(<<>>, ps[3].cache)) : ps \in S3 }
        S5 == { Append(ps,
                  IF ShowSection(settings, "skills", resume_data.skills)
                  THEN build_skills_section(ps[4].cache, resume_data.skills, settings)
                  ELSE Built(<<>>, ps[4].cache)) : ps \in S4 }
        S6 == { Append(ps,
                  IF ShowSection(settings, "custom", resume_data.custom.descriptions)
                  THEN build_custom_section(
                           ps[5].cache, resume_data.custom.descriptions, settings)
                  ELSE Built(<<>>, ps[5].cache)) : ps \in S5 }
    IN  The(S6)

\* variant: the header is appended after the first section
StoryOf_headerSecond(parts) ==
    parts[2].story \o parts[1].story \o parts[3].story \o parts[4].story
    \o parts[5].story \o parts[6].story

\* story.extend(...) of each part, in call order
StoryOf(parts) ==
    parts[1].story \o parts[2].story \o parts[3].story \o parts[4].story
    \o parts[5].story \o parts[6].story

\* the builder that raised first; the calls after it are never made
FirstRaised(parts) ==
    CHOOSE i \in 1..6 : parts[i].raised /\ \A j \in 1..(i - 1) : ~parts[j].raised

\* variant: an exception of a builder is swallowed and the story built so
\* far is serialized and returned
FinishPdf_partial(parts, fonts, pagesize) ==
    IF \E i \in 1..6 : parts[i].raised
    THEN The({ [result |-> PdfBytes(pagesize, story, Paginate(pagesize, story).pages),
                cache |-> parts[FirstRaised(parts)].cache] :
               story \in { Flatten([i \in 1..(FirstRaised(parts) - 1) |->
                                      parts[i].story]) } })
    ELSE IF BuildRaises(fonts, StoryOf(parts))
    THEN [result |-> Failure("doc.build"), cache |-> parts[6].cache]
    ELSE The({ [result |-> IF lay.raised THEN Failure("doc.build")
                           ELSE PdfBytes(pagesize, StoryOf(parts), lay.pages),
                cache |-> parts[6].cache] :
               lay \in {Paginate(pagesize, StoryOf(parts))} })

\* doc.build(story); return buffer.getvalue() -- or, on any exception of the
\* try block, raise Exception("PDF generation failed: ...")
FinishPdf(parts, fonts, pagesize) ==
    IF \E i \in 1..6 : parts[i].raised
    THEN [result |-> Failure(IF FirstRaised(parts) = 1 THEN "style resolution"
                             ELSE "section builder"),
          cache |-> parts[FirstRaised(parts)].cache]
    ELSE IF BuildRaises(fonts, StoryOf(parts))
    THEN [result |-> Failure("doc.build"), cache |-> parts[6].cache]
    ELSE The({ [result |-> IF lay.raised THEN Failure("doc.build")
                           ELSE PdfBytes(pagesize, StoryOf(parts), lay.pages),
                cache |-> parts[6].cache] :
               lay \in {Paginate(pagesize, StoryOf(parts))} })

generate_resume_pdf(cache, fonts, resume_data) ==
    LET settings == resume_data.settings
        pagesize == get_page_size(IF TruthyStr(settings.documentSize)
                                  THEN settings.documentSize
                                  ELSE <<"L", "e", "t", "t", "e", "r">>)
    IN  The({ FinishPdf(parts, fonts, pagesize) :
                parts \in {BuildParts(cache, resume_data)} })

\* ------------------------------------------------------------------------
\* utils.validators.ResumeValidator (issues only; warnings do not affect
\* is_valid)
\* ------------------------------------------------------------------------

\* not text.strip()
Blank(t) == t \in {"", " "}

SettingGet(vs, key, default) == IF key \in DOMAIN vs THEN vs[key] ELSE default

validate_personal_info(personal_info) ==
    Opt(Blank(personal_info.name), "Name is required")
    \o Opt(~TruthyText(personal_info.email), "Email is required")

validate_work_experiences(vs, work_experiences) ==
    Opt(Len(work_experiences) > SettingGet(vs, "max_work_experiences", 10),
        "Too many work experiences")
    \o Flatten([i \in 1..Len(work_experiences) |->
            Opt(Blank(work_experiences[i].company), "Company name is required")
            \o Opt(Blank(work_experiences[i].jobTitle), "Job title is required")
            \o Opt(Blank(work_experiences[i].date), "Date is required")])

validate_educations(vs, educations) ==
    Opt(Len(educations) > SettingGet(vs, "max_educations", 5),
        "Too many education entries")
    \o Flatten([i \in 1..Len(educations) |->
            Opt(Blank(educations[i].school), "School name is required")
            \o Opt(Blank(educations[i].degree), "Degree is required")
            \o Opt(Blank(educations[i].date), "Date is required")])

validate_projects(vs, projects) ==
    Opt(Len(projects) > SettingGet(vs, "max_projects", 10), "Too many projects")
    \o Flatten([i \in 1..Len(projects) |->
            Opt(Blank(projects[i].name), "Project name is required")
            \o Opt(Blank(projects[i].date), "Date is required")])

validate_skills(vs, skills) ==
    Opt(Len(skills) > SettingGet(vs, "max_skills_categories", 10),
        "Too many skill categories")
    \o Flatten([i \in 1..Len(skills) |->
            Opt(Blank(skills[i].category), "Category name is required")
            \o Opt(Len(skills[i].skills) = 0, "No skills listed in category")])

\* a None or empty themeColor, fontSize or documentSize is not checked;
\* a font size outside MIN_FONT_SIZE..MAX_FONT_SIZE is only a warning
validate_settings(settings) ==
    Opt(TruthyStr(settings.themeColor) /\ ~COLOR_PATTERN(settings.themeColor),
        "Theme color must be a valid hex color")
    \o Opt(TruthyStr(settings.fontSize) /\ ~PyIntOk(settings.fontSize, 10),
           "Font size must be a valid number")
    \o Opt(TruthyStr(settings.documentSize)
           /\ settings.documentSize \notin VALID_DOCUMENT_SIZES,
           "Document size must be one of: Letter, A4")

\* the issues list; is_valid is len(issues) == 0
validate_complete_resume(vs, resume_data) ==
    validate_personal_info(resume_data.personalInfo)
    \o (IF Len(resume_data.workExperiences) > 0
        THEN validate_work_experiences(vs, resume_data.workExperiences) ELSE <<>>)
    \o (IF Len(resume_data.educations) > 0
        THEN validate_educations(vs, resume_data.educations) ELSE <<>>)
    \o (IF Len(resume_data.projects) > 0
        THEN validate_projects(vs, resume_data.projects) ELSE <<>>)
    \o (IF Len(resume_data.skills) > 0
        THEN validate_skills(vs, resume_data.skills) ELSE <<>>)
    \o validate_settings(resume_data.settings)

is_valid(vs, resume_data) == Len(validate_complete_resume(vs, resume_data)) = 0

\* ------------------------------------------------------------------------
\* ConfigManager (services/config_manager.py)
\*
\* A configuration key such as "validation.max_projects" is written as
\* key.split('.'), the sequence of its dot-free parts.  A configuration is a
\* dict of sections, each a dict of entries.  dict.copy() is shallow: the
\* copy's sections are the very dict objects of the original, so a manager
\* state carries, next to config and default_config, the set `aliased` of
\* the sections of config that are the same object as the section of
\* default_config with that name.
\* ------------------------------------------------------------------------

EmptyDict == [k \in {} |-> 0]

\* self.default_config as built by __init__
DefaultConfig ==
    [pdf_settings |->
        [default_theme_color |-> "#1f2937", default_font_family |-> "OpenSans",
         default_font_size |-> "11", default_document_size |-> "Letter",
         max_file_size_mb |-> 10, output_directory |-> "output",
         temp_directory |-> "temp"],
     api_settings |->
        [max_request_size |-> "10MB", rate_limit_per_minute |-> 60,
         enable_cors |-> TRUE, debug_mode |-> FALSE],
     logging |->
        [level |-> "INFO",
         format |-> "%(asctime)s - %(name)s - %(levelname)s - %(message)s",
         file |-> "app.log"],
     fonts |->
        [opensans_regular |-> "static/fonts/OpenSans-Regular.ttf",
         opensans_bold |-> "static/fonts/OpenSans-Bold.ttf"],
     validation |->
        [max_work_experiences |-> 10, max_educations |-> 5, max_projects |-> 10,
         max_skills_categories |-> 10, max_description_length |-> 200,
         required_fields |-> <<"name", "email">>]]

\* a manager right after __init__
ConfigManager ==
    [config |-> EmptyDict, default_config |-> DefaultConfig, aliased |-> {}]

\* d[k] = v on a dict
DictSet(dict, k, v) ==
    [x \in DOMAIN dict \cup {k} |-> IF x = k THEN v ELSE dict[x]]

\* The configuration file: absent, not parseable, or the JSON text of a
\* dict.  json.dump followed by json.load gives back an equal dict for the
\* values a configuration holds (str, int, bool, list of str under str keys).
NoFile == [kind |-> "missing", data |-> EmptyDict]

InvalidJson == [kind |-> "invalid", data |-> EmptyDict]

json_dump(config) == [kind |-> "json", data |-> config]

\* save_config: open(..., 'w') and json.dump; any error is caught and
\* reported as False.  `writable` is whether the file can be opened for
\* writing.
save_config(cm, file, writable) ==
    IF writable THEN [ok |-> TRUE, file |-> json_dump(cm.config)]
    ELSE [ok |-> FALSE, file |-> file]

\* _merge_configs on the entries of one section (no entry is a dict)
merge_entries(base, updates) ==
    [k \in DOMAIN base \cup DOMAIN updates |->
        IF k \in DOMAIN updates THEN updates[k] ELSE base[k]]

\* _merge_configs(base, updates) on dicts of sections: result = base.copy(),
\* a section of both is replaced by the merge of the two (a new dict), a
\* section of updates alone is taken over, a section of base alone stays
\* the object of base
merge_configs(base, updates) ==
    [s \in DOMAIN base \cup DOMAIN updates |->
        IF s \notin DOMAIN updates THEN base[s]
        ELSE IF s \in DOMAIN base THEN merge_entries(base[s], updates[s])
        ELSE updates[s]]

\* load_config: the merge of the defaults with the file, or, when the file
\* is missing or is not JSON, self.default_config.copy(); a missing file is
\* then created by save_config.  (_create_directories touches directories
\* only.)
load_config(cm, file, writable) ==
    IF file.kind = "json"
    THEN [cm |-> [cm EXCEPT !.config = merge_configs(cm.default_config, file.data),
                            !.aliased = DOMAIN cm.default_config \ DOMAIN file.data],
          file |-> file]
    ELSE The({ [cm |-> copied,
                file |-> IF file.kind = "missing"
                         THEN save_config(copied, file, writable).file ELSE file] :
               copied \in {[cm EXCEPT !.config = cm.default_config,
                                      !.aliased = DOMAIN cm.default_config]} })

\* set(key, value) for a key of two parts: the section is created when it
\* is missing, and the entry is assigned in the section object, which is
\* the section of default_config when the two are aliased
set(cm, key, value) ==
    The({ [config |-> [withSection EXCEPT ![key[1]] = DictSet(@, key[2], value)],
           default_config |->
               IF key[1] \in cm.aliased
               THEN [cm.default_config EXCEPT ![key[1]] = DictSet(@, key[2], value)]
               ELSE cm.default_config,
           aliased |-> cm.aliased] :
          withSection \in
            { IF key[1] \in DOMAIN cm.config THEN cm.config
              ELSE DictSet(cm.config, key[1], EmptyDict) } })

\* update_config(updates): merge into config (sections named in updates
\* become new dicts), then save
update_config(cm, updates, file, writable) ==
    The({ [cm |-> merged, saved |-> save_config(merged, file, writable)] :
          merged \in {[cm EXCEPT !.config = merge_configs(cm.config, updates),
                                 !.aliased = cm.aliased \ DOMAIN updates]} })

\* variant: validation.required_fields may be set too
allowed_keys_withRequiredFields ==
    { <<"pdf_settings", "default_theme_color">>,
      <<"pdf_settings", "default_font_family">>,
      <<"pdf_settings", "default_font_size">>,
      <<"pdf_settings", "default_document_size">>,
      <<"validation", "max_work_experiences">>,
      <<"validation", "max_educations">>,
      <<"validation", "max_projects">>,
      <<"validation", "max_skills_categories">>,
      <<"validation", "max_description_length">>,
      <<"validation", "required_fields">> }

\* endpoints.update_config: the keys a request may set
allowed_keys ==
    { <<"pdf_settings", "default_theme_color">>,
      <<"pdf_settings", "default_font_family">>,
      <<"pdf_settings", "default_font_size">>,
      <<"pdf_settings", "default_document_size">>,
      <<"validation", "max_work_experiences">>,
      <<"validation", "max_educations">>,
      <<"validation", "max_projects">>,
      <<"validation", "max_skills_categories">>,
      <<"validation", "max_description_length">> }

\* get_validation_settings: self.get('validation', {})
get_validation_settings(cm) ==
    IF "validation" \in DOMAIN cm.config THEN cm.config["validation"] ELSE EmptyDict

\* the keys of a request body that are in allowed_keys
AllowedUpdates(updates) == {k \in DOMAIN updates : k \in allowed_keys}

\* for key, value in updates.items(): if key in allowed_keys:
\* config_manager.set(key, value)
RECURSIVE SetAll(_, _, _)
SetAll(cm, updates, keys) ==
    IF keys = {} THEN cm
    ELSE The({ SetAll(set(cm, k, updates[k]), updates, keys \ {k}) :
               k \in {CHOOSE k \in keys : TRUE} })

\* ------------------------------------------------------------------------
\* OpenResumeWrapper (services/openresume_wrapper.py)
\*
\* Skill categories and skills are character sequences here, because the
\* wrapper joins and splits them.
\* ------------------------------------------------------------------------

\* x or default
OrStr(s, default) == IF TruthyStr(s) THEN s ELSE default

OrText(t, default) == IF TruthyText(t) THEN t ELSE default

\* sep.join(parts) on character sequences
RECURSIVE StrJoin(_, _)
StrJoin(sep, parts) ==
    IF Len(parts) = 0 THEN <<>>
    ELSE IF Len(parts) = 1 THEN parts[1]
    ELSE parts[1] \o sep \o StrJoin(sep, Tail(parts))

\* s.find(sep) + 1: where sep first occurs in s, 0 when it does not
Find(s, sep) ==
    LET at == { i \in 1..(Len(s) - Len(sep) + 1) : SubSeq(s, i, i + Len(sep) - 1) = sep }
    IN  IF at = {} THEN 0 ELSE CHOOSE i \in at : \A j \in at : i <= j

\* s.split(sep) for a non-empty sep
RECURSIVE Split(_, _)
Split(s, sep) ==
    The({ IF i = 0 THEN <<s>>
          ELSE <<SubSeq(s, 1, i - 1)>> \o Split(SubSeq(s, i + Len(sep), Len(s)), sep) :
          i \in {Find(s, sep)} })

COLON_SPACE == <<":", " ">>

COMMA_SPACE == <<",", " ">>

\* f"{skill_group.category}: {', '.join(skill_group.skills)}"
SkillDescription(skill_group) ==
    skill_group.category \o COLON_SPACE \o StrJoin(COMMA_SPACE, skill_group.skills)

\* {"category": cat.split(": ")[0], "skills": cat.split(": ")[1].split(", ")}
SkillOfDescription(cat) ==
    [category |-> Split(cat, COLON_SPACE)[1],
     skills   |-> Split(Split(cat, COLON_SPACE)[2], COMMA_SPACE)]

SystemUi == <<"s", "y", "s", "t", "e", "m", "-", "u", "i">>

transform_to_openresume_format(resume_data) ==
    [personalInfo |->
        [name     |-> resume_data.personalInfo.name,
         email    |-> resume_data.personalInfo.email,
         phone    |-> OrText(resume_data.personalInfo.phone, ""),
         url      |-> OrText(resume_data.personalInfo.url, ""),
         summary  |-> OrText(resume_data.personalInfo.summary, ""),
         location |-> OrText(resume_data.personalInfo.location, "")],
     workExperiences |->
        [i \in 1..Len(resume_data.workExperiences) |->
            [company      |-> resume_data.workExperiences[i].company,
             jobTitle     |-> resume_data.workExperiences[i].jobTitle,
             date         |-> resume_data.workExperiences[i].date,
             descriptions |-> resume_data.workExperiences[i].descriptions]],
     educations |->
        [i \in 1..Len(resume_data.educations) |->
            [school       |-> resume_data.educations[i].school,
             degree       |-> resume_data.educations[i].degree,
             date         |-> resume_data.educations[i].date,
             gpa          |-> OrText(resume_data.educations[i].gpa, ""),
             descriptions |-> resume_data.educations[i].descriptions]],
     projects |->
        [i \in 1..Len(resume_data.projects) |->
            [project      |-> resume_data.projects[i].name,
             date         |-> resume_data.projects[i].date,
             descriptions |-> resume_data.projects[i].descriptions]],
     skills |->
        [i \in 1..Len(resume_data.skills) |->
            SkillOfDescription(SkillDescription(resume_data.skills[i]))],
     publications |-> <<>>,
     certifications |-> <<>>,
     custom |-> [descriptions |-> resume_data.custom.descriptions],
     settings |->
        [fontFamily    |-> OrStr(resume_data.settings.fontFamily, SystemUi),
         fontSize      |-> OrStr(resume_data.settings.fontSize, <<"1", "1">>),
         documentSize  |-> OrStr(resume_data.settings.documentSize,
                                 <<"L", "e", "t", "t", "e", "r">>),
         themeColor    |-> OrStr(resume_data.settings.themeColor,
                                 <<"#", "1", "f", "2", "9", "3", "7">>),
         formToHeading |-> DefaultHeading,
         formToShow    |->
            [workExperiences |-> Len(resume_data.workExperiences) > 0,
             educations      |-> Len(resume_data.educations) > 0,
             projects        |-> Len(resume_data.projects) > 0,
             skills          |-> Len(resume_data.skills) > 0,
             custom          |-> Len(resume_data.custom.descriptions) > 0],
         formsOrder    |-> SectionKeys,
         showBulletPoints |-> DefaultShow]]

\* required_fields of validate_openresume_data
required_fields ==
    [profile         |-> {"name", "email"},
     workExperiences |-> {},
     educations      |-> {},
     projects        |-> {},
     skills          |-> {"featuredSkills", "descriptions"},
     custom          |-> {"descriptions"},
     settings        |-> {"fontFamily", "fontSize", "documentSize"}]

\* isinstance(openresume_data[section], dict) for a structure built by
\* transform_to_openresume_format: these sections are dicts, the others
\* (the skills too) are lists
IsDict(section) == section \in {"personalInfo", "custom", "settings"}

validate_openresume_data(openresume_data) ==
    \A section \in DOMAIN required_fields :
        /\ section \in DOMAIN openresume_data
        /\ IsDict(section)
           => \A field \in required_fields[section] :
                 field \in DOMAIN openresume_data[section]

\* What subprocess.run(['node', bridge_script, path], timeout=30) can do:
\* exit with a return code, run into the timeout, or fail to start
Exited(returncode, stdout, stderr) ==
    [kind |-> "exit", returncode |-> returncode, stdout |-> stdout, stderr |-> stderr]

TimeoutExpired == [kind |-> "timeout", returncode |-> 0, stdout |-> "", stderr |-> ""]

OSError == [kind |-> "oserror", returncode |-> 0, stdout |-> "", stderr |-> ""]

Bytes(stdout) == [kind |-> "bytes", bytes |-> stdout, message |-> ""]

WrapperError(message) == [kind |-> "error", bytes |-> "", message |-> message]

\* variant: the finally clause removes nothing
finally_unlink_skipped(files, temp_file_path) == files

\* finally: if os.path.exists(temp_file_path): os.unlink(temp_file_path)
finally_unlink(files, temp_file_path) ==
    IF temp_file_path \in files THEN files \ {temp_file_path} ELSE files

\* the inner try block: what the call returns or raises for an outcome of
\* the bridge process
RunBridge(outcome) ==
    CASE outcome.kind = "timeout" -> WrapperError("PDF generation timed out")
      [] outcome.kind = "oserror" ->
            WrapperError("Failed to generate PDF with OpenResume: "
                         \o "[Errno 2] No such file or directory: 'node'")
      [] outcome.kind = "exit" /\ outcome.returncode # 0 ->
            WrapperError("Failed to generate PDF with OpenResume: "
                         \o "OpenResume bridge failed: "
                         \o (IF outcome.stderr # "" THEN outcome.stderr
                             ELSE "Unknown error"))
      [] OTHER -> Bytes(outcome.stdout)

\* generate_pdf_with_openresume: the transformed data is dumped to a new
\* temporary file (delete=False), the bridge runs, the finally clause
\* removes the file.  Returns what the call returned or raised and the
\* temporary files that exist afterwards.
generate_pdf_with_openresume(resume_data, files, temp_file_path, outcome) ==
    The({ [returned |-> RunBridge(outcome),
           data |-> openresume_data,
           files |-> finally_unlink(files \cup {temp_file_path}, temp_file_path)] :
          openresume_data \in {transform_to_openresume_format(resume_data)} })

\* ------------------------------------------------------------------------
\* State
\* ------------------------------------------------------------------------

VARIABLES
    registeredFonts,      \* fonts setup_fonts registered with pdfmetrics
    cached_styles,        \* pdf_generator._cached_styles (NoStyles until set)
    validation_settings,  \* resume_validator.validation_settings
    request,              \* the last request served
    operation,            \* which operation served it
    cacheBefore,          \* _cached_styles when that operation started
    result,               \* what generate_resume_pdf returned or raised
    response,             \* the HTTP response of the endpoint
    marked,               \* an earlier call kept for comparison
    config,               \* config_manager.config
    default_config,       \* config_manager.default_config
    aliased,              \* sections of config that are default_config's objects
    config_file,          \* the file constants.CONFIG_FILE
    updates_applied,      \* "updates_applied" of the last PUT /config response
    configBefore,         \* config when the last configuration operation started
    fileBefore,           \* config_file when that operation started
    temp_files,           \* the temporary files that exist
    wrapperCall           \* the last call of an OpenResumeWrapper method

configVars == <<config, default_config, aliased, config_file, updates_applied,
                configBefore, fileBefore>>

vars == <<registeredFonts, cached_styles, validation_settings, request,
          operation, cacheBefore, result, response, marked, configVars,
          temp_files, wrapperCall>>

NoCall ==
    [data |-> <<>>, valid |-> FALSE, temp_file_path |-> "", outcome |-> OSError,
     returned |-> [kind |-> "none", bytes |-> "", message |-> ""]]

NoRequest == [none |-> TRUE]

NoResponse == [status |-> 0, issues |-> <<>>, message |-> ""]

NoMark == [none |-> TRUE]

\* After construction of the module-level services in api/endpoints.py:
\* setup_fonts registered the font files that exist and load, nothing is
\* cached, and the validator read its settings from a ConfigManager whose
\* config is still {} (load_config is called on the ConfigManager of main.py
\* only).
ServicesConstructed ==
    /\ registeredFonts \in SUBSET {"OpenSans", "OpenSans-Bold"}
    /\ cached_styles = NoStyles
    /\ config = ConfigManager.config
    /\ default_config = ConfigManager.default_config
    /\ aliased = ConfigManager.aliased
    /\ validation_settings = get_validation_settings(ConfigManager)
    /\ request = NoRequest
    /\ operation = "none"
    /\ cacheBefore = NoStyles
    /\ result = NoResult
    /\ response = NoResponse
    /\ marked = NoMark
    /\ updates_applied = EmptyDict
    /\ configBefore = ConfigManager.config
    /\ temp_files = {}
    /\ wrapperCall = NoCall

\* The configuration file is the one the startup event of main.py left: the
\* defaults, written when there was no file.
Init ==
    /\ ServicesConstructed
    /\ config_file = json_dump(DefaultConfig)
    /\ fileBefore = config_file

\* ------------------------------------------------------------------------
\* Operations
\* ------------------------------------------------------------------------

\* pdf_generator.generate_resume_pdf(resume_data) called on the shared
\* generator without the endpoint's validation
GenerateResumePdf(req) ==
    \E r \in {generate_resume_pdf(cached_styles, registeredFonts, ResumeData(req))} :
        /\ request' = req
        /\ operation' = "generate_resume_pdf"
        /\ cacheBefore' = cached_styles
        /\ result' = r.result
        /\ cached_styles' = r.cache
        /\ response' = NoResponse
        /\ UNCHANGED <<registeredFonts, validation_settings, marked, configVars,
                       temp_files, wrapperCall>>

\* variant: the PDF is generated before the validation result is looked at
generate_resume_renderFirst(req) ==
    \E issues \in {validate_complete_resume(validation_settings, ResumeData(req))} :
    \E r \in {generate_resume_pdf(cached_styles, registeredFonts, ResumeData(req))} :
        /\ request' = req
        /\ operation' = "generate_resume"
        /\ cacheBefore' = cached_styles
        /\ result' = r.result
        /\ cached_styles' = r.cache
        /\ response' =
             IF r.result.kind # "pdf"
             THEN [status |-> 500, issues |-> <<>>, message |-> r.result.message]
             ELSE IF Len(issues) > 0
             THEN [status |-> 400, issues |-> issues, message |-> "Validation failed"]
             ELSE [status |-> 200, issues |-> <<>>, message |-> ""]
        /\ UNCHANGED <<registeredFonts, validation_settings, marked, configVars,
                       temp_files, wrapperCall>>

\* POST /generate-resume.  The handler is an async def without an await, so
\* one request runs to completion before the next one starts.
generate_resume(req) ==
    \E issues \in {validate_complete_resume(validation_settings, ResumeData(req))} :
        /\ request' = req
        /\ operation' = "generate_resume"
        /\ cacheBefore' = cached_styles
        /\ IF Len(issues) > 0
           THEN /\ response' = [status |-> 400, issues |-> issues,
                                message |-> "Validation failed"]
                /\ result' = NoResult
                /\ UNCHANGED cached_styles
           ELSE \E r \in {generate_resume_pdf(cached_styles, registeredFonts,
                                               ResumeData(req))} :
                /\ result' = r.result
                /\ cached_styles' = r.cache
                /\ response' =
                     IF r.result.kind = "pdf"
                     THEN [status |-> 200, issues |-> <<>>, message |-> ""]
                     ELSE [status |-> 500, issues |-> <<>>,
                           message |-> r.result.message]
        /\ UNCHANGED <<registeredFonts, validation_settings, marked, configVars,
                       temp_files, wrapperCall>>

\* Observer: keep the call just made, to compare a later identical call
\* with it.  Changes no program state.
Remember ==
    /\ operation = "generate_resume_pdf"
    /\ marked = NoMark
    /\ marked' = [request |-> request, result |-> result]
    /\ UNCHANGED <<registeredFonts, cached_styles, validation_settings, request,
                   operation, cacheBefore, result, response, configVars,
                   temp_files, wrapperCall>>

\* The current manager state, and the assignment of a manager state
CM == [config |-> config, default_config |-> default_config, aliased |-> aliased]

SetCM(cm) ==
    /\ config' = cm.config
    /\ default_config' = cm.default_config
    /\ aliased' = cm.aliased

\* PUT /config (endpoints.update_config).  On a failed save the handler
\* answers 500 after the allowed keys were set.
put_config(updates, writable) ==
    \E cm \in { SetAll(CM, updates, AllowedUpdates(updates)) } :
    \E saved \in { save_config(cm, config_file, writable) } :
        /\ SetCM(cm)
        /\ config_file' = saved.file
        /\ request' = updates
        /\ operation' = "put_config"
        /\ response' =
             IF saved.ok
             THEN [status |-> 200, issues |-> <<>>,
                   message |-> "Configuration updated successfully"]
             ELSE [status |-> 500, issues |-> <<>>,
                   message |-> "Failed to save configuration"]
        /\ updates_applied' =
             IF saved.ok THEN [k \in AllowedUpdates(updates) |-> updates[k]]
             ELSE EmptyDict
        /\ configBefore' = config
        /\ fileBefore' = config_file
        /\ result' = NoResult
        /\ UNCHANGED <<registeredFonts, cached_styles, cacheBefore,
                       validation_settings, marked, temp_files, wrapperCall>>

\* What a call of a ConfigManager method leaves besides the manager state
CalledManager(name) ==
    /\ operation' = name
    /\ configBefore' = config
    /\ fileBefore' = config_file
    /\ request' = NoRequest
    /\ result' = NoResult
    /\ response' = NoResponse
    /\ updates_applied' = EmptyDict
    /\ UNCHANGED <<registeredFonts, cached_styles, cacheBefore,
                   validation_settings, marked, temp_files, wrapperCall>>

\* config_manager.load_config()
LoadConfig(writable) ==
    \E r \in { load_config(CM, config_file, writable) } :
        /\ SetCM(r.cm)
        /\ config_file' = r.file
        /\ CalledManager("load_config")

\* config_manager.set(key, value)
SetConfig(key, value) ==
    /\ SetCM(set(CM, key, value))
    /\ UNCHANGED config_file
    /\ CalledManager("set")

\* config_manager.update_config(updates)
UpdateConfig(updates, writable) ==
    \E r \in { update_config(CM, updates, config_file, writable) } :
        /\ SetCM(r.cm)
        /\ config_file' = r.saved.file
        /\ CalledManager("update_config")

\* What a call of an OpenResumeWrapper method leaves besides its own state
CalledWrapper(name, resume_data) ==
    /\ operation' = name
    /\ request' = resume_data
    /\ result' = NoResult
    /\ response' = NoResponse
    /\ UNCHANGED <<registeredFonts, cached_styles, cacheBefore,
                   validation_settings, marked, configVars>>

\* wrapper.validate_openresume_data(wrapper.transform_to_openresume_format(d))
TransformToOpenresumeFormat(resume_data) ==
    /\ wrapperCall' =
         The({ [data |-> data, valid |-> validate_openresume_data(data),
                temp_file_path |-> NoCall.temp_file_path,
                outcome |-> NoCall.outcome, returned |-> NoCall.returned] :
               data \in { transform_to_openresume_format(resume_data) } })
    /\ UNCHANGED temp_files
    /\ CalledWrapper("transform_to_openresume_format", resume_data)

\* wrapper.generate_pdf_with_openresume(d); tempfile picks a name that is
\* not in use
GeneratePdfWithOpenresume(resume_data, temp_file_path, outcome) ==
    /\ temp_file_path \notin temp_files
    /\ \E r \in { generate_pdf_with_openresume(resume_data, temp_files,
                                                temp_file_path, outcome) } :
        /\ wrapperCall' = [data |-> r.data, valid |-> FALSE,
                           temp_file_path |-> temp_file_path,
                           outcome |-> outcome, returned |-> r.returned]
        /\ temp_files' = r.files
    /\ CalledWrapper("generate_pdf_with_openresume", resume_data)

\* ------------------------------------------------------------------------
\* Requests
\* ------------------------------------------------------------------------

\* items per section list and descriptions per item
MaxItems == 2

MaxDescs == 2

Jane ==
    [name |-> "Jane Doe", email |-> "jane@x.com", phone |-> NoneText,
     url |-> NoneText, location |-> NoneText, summary |-> NoneText]

JaneFull ==
    [name |-> "Jane Doe", email |-> "jane@x.com", phone |-> "555-0100",
     url |-> "https://jane.dev", location |-> "Oslo", summary |-> "Engineer."]

Descs(tag) == [j \in 1..MaxDescs |-> tag \o " did " \o ToString(j)]

\* the first work experience carries a blank description between its own
WorkItems ==
    [i \in 1..MaxItems |->
        [company |-> "Company " \o ToString(i), jobTitle |-> "Title " \o ToString(i),
         date |-> "Jan 2020 - Present",
         descriptions |-> IF i = 1
                          THEN <<Descs("W1")[1], " ">> \o Tail(Descs("W1"))
                          ELSE Descs("W" \o ToString(i))]]

EducationItems ==
    [i \in 1..MaxItems |->
        [school |-> "School " \o ToString(i), degree |-> "Degree " \o ToString(i),
         date |-> "2016 - 2020", gpa |-> IF i = 1 THEN "3.8" ELSE NoneText,
         descriptions |-> IF i = 1 THEN <<>> ELSE Descs("E" \o ToString(i))]]

ProjectItems ==
    [i \in 1..MaxItems |->
        [name |-> "Project " \o ToString(i), date |-> "2023",
         descriptions |-> Descs("P" \o ToString(i))]]

\* group i lists i skills and a padded one
SkillItems ==
    [i \in 1..MaxItems |->
        [category |-> "Category " \o ToString(i),
         skills |-> [j \in 1..i |-> "Skill " \o ToString(j)] \o <<" Rust ">>]]

CustomItems == Descs("C")

DefaultSettings ==
    [themeColor |-> AbsentStr, fontFamily |-> AbsentStr, fontSize |-> AbsentStr,
     documentSize |-> AbsentStr, formToHeading |-> AbsentHeading,
     formToShow |-> AbsentShow, order |-> NoOrder]

\* a request whose non-empty sections are those of `present`
RequestWith(personal_info, present, settings) ==
    [personalInfo    |-> personal_info,
     workExperiences |-> IF "workExperiences" \in present THEN WorkItems ELSE <<>>,
     educations      |-> IF "educations" \in present THEN EducationItems ELSE <<>>,
     projects        |-> IF "projects" \in present THEN ProjectItems ELSE <<>>,
     skills          |-> IF "skills" \in present THEN SkillItems ELSE <<>>,
     custom          |-> [descriptions |->
                            IF "custom" \in present THEN CustomItems ELSE <<>>],
     settings        |-> settings]

ThemeColors ==
    { AbsentStr, NoneStr, <<"#", "a", "b", "c">>,
      <<"n", "o", "t", "a", "c", "o", "l", "o", "r">> }

FontFamilies == { AbsentStr, NoneStr }

FontSizes == { AbsentStr, NoneStr, <<"1", "4">> }

StyleSettings ==
    { [DefaultSettings EXCEPT !.themeColor = c, !.fontFamily = f, !.fontSize = z] :
        c \in ThemeColors, f \in FontFamilies, z \in FontSizes }

StyleRequests ==
    { RequestWith(Jane, present, s) :
        present \in { {"skills"}, {"workExperiences", "custom"} },
        s \in StyleSettings }

Next ==
    \E req \in StyleRequests :
        \/ GenerateResumePdf(req)
        \/ generate_resume(req)

Spec == Init /\ [][Next]_vars

\* The service alone: every render goes through the endpoint.
NextService == \E req \in StyleRequests : generate_resume(req)

SpecService == Init /\ [][NextService]_vars

\* Repeated direct calls, with one earlier call kept for comparison.
RepeatRequests ==
    { RequestWith(Jane, {"workExperiences", "custom"},
                  [DefaultSettings EXCEPT !.themeColor = c, !.fontSize = z]) :
        c \in ThemeColors, z \in { AbsentStr, <<"1", "4">> } }

NextRepeat ==
    \/ \E req \in RepeatRequests : GenerateResumePdf(req)
    \/ Remember

SpecRepeat == Init /\ [][NextRepeat]_vars

\* Document sizes.
DocumentSizes ==
    { AbsentStr, NoneStr, <<>>, <<"L", "e", "t", "t", "e", "r">>, <<"A", "4">>,
      <<"a", "4">>, <<"L", "e", "g", "a", "l">> }

PageRequests ==
    { RequestWith(Jane, {"skills"},
                  [DefaultSettings EXCEPT !.documentSize = d, !.fontFamily = f,
                                          !.themeColor = c]) :
        d \in DocumentSizes, f \in FontFamilies,
        c \in { AbsentStr, <<"#", "a", "b", "c">> } }

NextPage ==
    \E req \in PageRequests :
        \/ GenerateResumePdf(req)
        \/ generate_resume(req)

SpecPage == Init /\ [][NextPage]_vars

\* Section content, visibility and order.
Times == <<"T", "i", "m", "e", "s">>

KeySet == {SectionKeys[i] : i \in 1..5}

ShowChoices ==
    { AbsentShow, NoneShow,
      [workExperiences |-> FALSE, projects |-> TRUE, skills |-> FALSE],
      [k \in KeySet |-> k \in {"workExperiences", "projects", "skills"}] }

\* a section order as a request may give it: none, or a permutation of the keys
Orders ==
    { NoOrder, <<"skills", "custom", "projects", "educations", "workExperiences">> }

HeadingChoices ==
    { NoneHeading, [workExperiences |-> "JOBS", skills |-> "TOOLS"] }

SectionRequests ==
    { RequestWith(IF "custom" \in present THEN JaneFull ELSE Jane, present,
                  [DefaultSettings EXCEPT !.fontFamily = Times, !.formToShow = show,
                                          !.order = o]) :
        present \in SUBSET KeySet, show \in ShowChoices, o \in Orders }
    \cup
    { RequestWith(IF "custom" \in present THEN JaneFull ELSE Jane, present,
                  [DefaultSettings EXCEPT !.fontFamily = Times, !.formToShow = NoneShow,
                                          !.formToHeading = h]) :
        present \in SUBSET KeySet, h \in HeadingChoices }

NextSections == \E req \in SectionRequests : GenerateResumePdf(req)

\* both font files present and loadable at construction
InitFontsInstalled == Init /\ registeredFonts = {"OpenSans", "OpenSans-Bold"}

SpecSections == InitFontsInstalled /\ [][NextSections]_vars

\* Font families, on generators with and without the OpenSans files.
FontRequests ==
    { RequestWith(Jane, present,
                  [DefaultSettings EXCEPT !.fontFamily = f, !.themeColor = c]) :
        present \in { {"skills"}, {"workExperiences", "custom"} },
        f \in { AbsentStr, NoneStr, Times },
        c \in { AbsentStr, <<"#", "a", "b", "c">> } }

NextFonts ==
    \E req \in FontRequests :
        \/ GenerateResumePdf(req)
        \/ generate_resume(req)

SpecFonts == Init /\ [][NextFonts]_vars

\* Settings the validator has to judge, sent to the endpoint.
ValidationRequests ==
    { RequestWith(Jane, present,
                  [DefaultSettings EXCEPT !.themeColor = c, !.fontSize = z]) :
        present \in { {"skills"}, {"workExperiences", "custom"} },
        c \in { AbsentStr, <<>>, <<"#", "a", "b", "c">>,
                <<"#", "1", "2", "3", "4", "5">>,
                <<"n", "o", "t", "a", "c", "o", "l", "o", "r">> },
        z \in { AbsentStr, <<"2", "0">>, <<"7">>, <<"x">> } }

NextValidation == \E req \in ValidationRequests : generate_resume(req)

SpecValidation == Init /\ [][NextValidation]_vars

\* Long documents: up to MaxExperiences work experiences of MaxBullets
\* bullets each, with short, long or huge descriptions.
MaxExperiences == 5

MaxBullets == 8

LongItems(n, text) ==
    [i \in 1..n |->
        [company |-> "Company " \o ToString(i), jobTitle |-> "Title " \o ToString(i),
         date |-> "Jan 2020 - Present",
         descriptions |-> [j \in 1..MaxBullets |-> text]]]

PaginationRequests ==
    { [RequestWith(Jane, {}, [DefaultSettings EXCEPT !.documentSize = d])
         EXCEPT !.workExperiences = LongItems(n, text)] :
        n \in 1..MaxExperiences,
        text \in {"did something", LongText, HugeText},
        d \in { AbsentStr, <<"A", "4">> } }

NextPagination ==
    \E req \in PaginationRequests :
        \/ GenerateResumePdf(req)
        \/ generate_resume(req)

SpecPagination == Init /\ [][NextPagination]_vars

\* ------------------------------------------------------------------------
\* Properties
\* ------------------------------------------------------------------------

\* the parsed settings of the last request
Settings == ResumeSettings(request.settings)

Called == operation # "none" /\ result.kind # "none"

LetterStr == <<"L", "e", "t", "t", "e", "r">>

A4Str == <<"A", "4">>

ItemsOf(req, key) ==
    CASE key = "workExperiences" -> req.workExperiences
      [] key = "educations" -> req.educations
      [] key = "projects" -> req.projects
      [] key = "skills" -> req.skills
      [] key = "custom" -> req.custom.descriptions

\* the flag of a section as the claims read it: hidden only by an explicit false
Hidden(st, key) ==
    /\ st.formToShow # NoneShow
    /\ key \in DOMAIN st.formToShow
    /\ st.formToShow[key] = FALSE

Expected(req, st, key) == ~Hidden(st, key) /\ Len(ItemsOf(req, key)) > 0

BlocksOf(story, key, role) ==
    {i \in 1..Len(story) : story[i].section = key /\ story[i].role = role}

ItemRole(key) == IF key \in {"skills", "custom"} THEN "BodyText" ELSE "ItemHeader"

IsHeading(b) == b.role = "SectionHeading"

\* the sections of the story's headings, in story order
EmittedSections(story) ==
    LET hs == SelectSeq(story, IsHeading)
    IN  [i \in 1..Len(hs) |-> hs[i].section]

StyleOfBlock(b) ==
    [fontName |-> b.fontName, fontSize |-> b.fontSize, textColor |-> b.textColor]

\* C1: every call of generate_resume_pdf styles its paragraphs with the style
\* set resolved from its own settings (theme color, font family, font size),
\* never with the styles an earlier call with other settings left behind.
C1_StylesOfOwnSettings ==
    (/\ operation = "generate_resume_pdf"
     /\ result.kind = "pdf"
     /\ ~HexColorRaises(Settings.themeColor)
     /\ ~FontSizeRaises(Settings.fontSize))
    => \A i \in 1..Len(result.story) :
          result.story[i].type = "Paragraph"
          => StyleOfBlock(result.story[i]) = BuildStyles(Settings)[result.story[i].role]

\* C2: the section headings of the story follow the section order given in
\* the request's settings (any permutation of the five keys), and the order
\* work, education, projects, skills, custom when none is given.
C2_SectionsInRequestedOrder ==
    (operation # "none" /\ result.kind = "pdf")
    => LET order == IF request.settings.order = NoOrder
                    THEN SectionKeys ELSE request.settings.order
           IsExpected(key) == Expected(request, Settings, key)
       IN  EmittedSections(result.story) = SelectSeq(order, IsExpected)

\* C3: a generate_resume_pdf call with the same resume data and settings as
\* an earlier call on the same generator has the same outcome, whatever was
\* rendered before or between the two.
C3_Deterministic ==
    (/\ marked # NoMark
     /\ operation = "generate_resume_pdf"
     /\ request = marked.request)
    => result = marked.result

\* C4: a request served by the endpoint gets the output it would get if it
\* were the only request the service ever served.
C4_AsIfAlone ==
    (operation = "generate_resume" /\ response.status # 400)
    => result = generate_resume_pdf(NoStyles, registeredFonts,
                                    ResumeData(request)).result

\* C5: the story starts with the header blocks -- the name, the contact line
\* and, when given, the summary -- and every heading and item block of a
\* section comes after every header block, whatever formToShow says.
C5_HeaderFirst ==
    (operation # "none" /\ result.kind = "pdf")
    => LET story == result.story
           info == request.personalInfo
           body == BlocksOf(story, "header", "BodyText")
       IN  /\ story[1].section = "header"
           /\ story[1].role = "Name"
           /\ story[1].text = <<info.name>>
           /\ story[2].section = "header"
           /\ story[2].role = "Contact"
           /\ IF TruthyText(info.summary)
              THEN \E i \in body : story[i].text = <<info.summary>>
              ELSE body = {}
           /\ \A i, j \in 1..Len(story) :
                 (story[i].section = "header" /\ story[j].section # "header")
                 => i < j

\* a render that produced sections after a header with a summary, under a
\* formToShow that hides some of them
C5_Witness ==
    /\ operation # "none"
    /\ result.kind = "pdf"
    /\ TruthyText(request.personalInfo.summary)
    /\ request.settings.formToShow # AbsentShow
    /\ Len(EmittedSections(result.story)) >= 2

\* C6: a section whose formToShow flag is false or whose item list is empty
\* has no heading and no item block in the story; a section with items whose
\* key is absent from formToShow, or under a null formToShow, is emitted.
C6_HiddenOrEmptySuppressed ==
    (operation # "none" /\ result.kind = "pdf")
    => \A key \in KeySet :
          IF Hidden(Settings, key) \/ Len(ItemsOf(request, key)) = 0
          THEN \A i \in 1..Len(result.story) : result.story[i].section # key
          ELSE /\ Cardinality(BlocksOf(result.story, key, "SectionHeading")) = 1
               /\ BlocksOf(result.story, key, ItemRole(key)) # {}

\* a render under a partial formToShow: work experience has items but is
\* flagged false, education has items and no key
C6_Witness ==
    /\ operation # "none"
    /\ result.kind = "pdf"
    /\ request.settings.formToShow # AbsentShow
    /\ request.settings.formToShow # NoneShow
    /\ Hidden(Settings, "workExperiences")
    /\ Len(request.workExperiences) > 0
    /\ "educations" \notin DOMAIN request.settings.formToShow
    /\ Len(request.educations) > 0
    /\ Len(request.projects) = 0

\* C7: a document that validate_complete_resume accepts renders on a fresh
\* generator (fonts installed): generate_resume_pdf returns bytes and does
\* not raise, also when optional settings are null or empty.
C7_ValidatedNeverRaises ==
    (/\ Called
     /\ cacheBefore = NoStyles
     /\ registeredFonts = {"OpenSans", "OpenSans-Bold"}
     /\ is_valid(validation_settings, ResumeData(request)))
    => result.kind = "pdf"

\* C8: a generate_resume_pdf call whose theme color is a string that is not
\* a #RGB / #RRGGBB hex color fails and returns no bytes, also after earlier
\* successful renders on the same generator.
C8_InvalidColorFails ==
    (/\ operation = "generate_resume_pdf"
     /\ TruthyStr(Settings.themeColor)
     /\ ~COLOR_PATTERN(Settings.themeColor))
    => result.kind = "error"

\* C9: Letter renders on the Letter page, A4 on the A4 page, always with
\* half-inch margins, and any other document size makes the render fail.
C9_PageSizeFailsClosed ==
    Called
    => /\ result.kind = "pdf" => result.margin = 36
       /\ (result.kind = "pdf" /\ Settings.documentSize = LetterStr)
          => (result.pagesize.width = 612 /\ result.pagesize.height = 792)
       /\ (result.kind = "pdf" /\ Settings.documentSize = A4Str)
          => (result.pagesize.width = 595 /\ result.pagesize.height = 842)
       /\ (TruthyStr(Settings.documentSize)
           /\ Settings.documentSize \notin {LetterStr, A4Str})
          => result.kind = "error"

\* what makes style resolution, a section builder or doc.build fail
StyleResolutionFails ==
    /\ cacheBefore = NoStyles
    /\ HexColorRaises(Settings.themeColor) \/ Settings.fontSize = NoneStr

SectionBuilderFails ==
    /\ Settings.fontSize = NoneStr
    /\ \E key \in {"workExperiences", "educations", "projects"} :
          Expected(request, Settings, key)

Serializable(story) ==
    \A i \in 1..Len(story) :
        {story[i].fontName, story[i].boldFontName}
            \subseteq {"Helvetica", "Helvetica-Bold"} \cup registeredFonts

\* header plus every visible non-empty section, each with all its items
Complete(story) ==
    /\ Len(story) > 0
    /\ story[1].role = "Name"
    /\ \A key \in KeySet :
          Expected(request, Settings, key)
          => /\ BlocksOf(story, key, "SectionHeading") # {}
             /\ Cardinality(BlocksOf(story, key, ItemRole(key)))
                  = Len(ItemsOf(request, key))

\* C10: generate_resume_pdf either returns the bytes of the complete,
\* serialized story or raises an error with a message; a failure of style
\* resolution, of a section builder or of doc.build never yields bytes, and
\* the endpoint answers such a failure with 500 and the message.
C10_BytesOrError ==
    Called
    => /\ result.kind \in {"pdf", "error"}
       /\ result.kind = "pdf"
          => /\ Complete(result.story)
             /\ Serializable(result.story)
             /\ ~StyleResolutionFails
             /\ ~SectionBuilderFails
       /\ result.kind = "error"
          => /\ result.message # ""
             /\ result.story = <<>>
             /\ result.pagesize = NoPage
       /\ operation = "generate_resume"
          => /\ response.status = 200 <=> result.kind = "pdf"
             /\ result.kind = "error"
                => (response.status = 500 /\ response.message = result.message)

\* a section builder failed after the header had been built from cached
\* styles, and the call raised
C10_Witness ==
    /\ Called
    /\ cacheBefore # NoStyles
    /\ Settings.fontSize = NoneStr
    /\ Expected(request, Settings, "workExperiences")
    /\ result.kind = "error"

\* the resume data generate_resume_pdf received for the last request
Data == ResumeData(request)

Rendered == operation # "none" /\ result.kind = "pdf"

ItemLabel(key, item) ==
    CASE key = "workExperiences" -> item.jobTitle
      [] key = "educations" -> item.degree
      [] key = "projects" -> item.name
      [] key = "skills" -> item.category
      [] key = "custom" -> item

ItemBullets(key, item) ==
    IF key \in {"workExperiences", "educations", "projects"}
    THEN item.descriptions ELSE <<>>

\* what identifies a block: the first cell of a header table, the text
\* after the bullet or the category of a skill line
BlockLabel(b) == IF b.type = "Table" THEN b.text[1] ELSE b.text[2]

\* role and label of the item blocks and bullets a section has to show
ExpectedBlocks(key, items) ==
    Flatten([i \in 1..Len(items) |->
        <<<<ItemRole(key), ItemLabel(key, items[i])>>>>
        \o [j \in 1..Len(ItemBullets(key, items[i])) |->
              <<"BodyText", ItemBullets(key, items[i])[j]>>]])

\* C11: every visible non-empty section shows exactly one heading, first,
\* then one item block per entry in the order of the input list, each item
\* followed by its bullets in the order of its descriptions.
C11_ItemsInInputOrder ==
    Rendered
    => \A key \in KeySet :
          Expected(request, Settings, key)
          => LET InSection(b) == b.section = key /\ b.type # "Spacer"
                 blocks == SelectSeq(result.story, InSection)
             IN  /\ Len(blocks) >= 1
                 /\ IsHeading(blocks[1])
                 /\ Cardinality(BlocksOf(result.story, key, "SectionHeading")) = 1
                 /\ [i \in 1..(Len(blocks) - 1) |->
                        <<blocks[i + 1].role, BlockLabel(blocks[i + 1])>>]
                    = ExpectedBlocks(key, ItemsOf(Data, key))

\* a render of two work experiences with two bullets each, next to an
\* education section
C11_Witness ==
    /\ Rendered
    /\ Expected(request, Settings, "workExperiences")
    /\ Expected(request, Settings, "educations")
    /\ Len(Data.workExperiences) >= 2
    /\ \A i \in 1..Len(Data.workExperiences) :
          Len(Data.workExperiences[i].descriptions) >= 2

\* C12: the heading of an emitted section is the text formToHeading gives
\* for its key, and the hard-coded default exactly when formToHeading is
\* null or has no entry for the key.
C12_HeadingText ==
    Rendered
    => \A i \in 1..Len(result.story) :
          IsHeading(result.story[i])
          => LET key == result.story[i].section
                 headings == Settings.formToHeading
             IN  result.story[i].text =
                   <<IF headings = NoneHeading \/ key \notin DOMAIN headings
                     THEN DefaultHeading[key] ELSE headings[key]>>

\* a render under a partial formToHeading: work experience has its own
\* heading, projects has no entry, both are emitted
C12_Witness ==
    /\ Rendered
    /\ Settings.formToHeading # NoneHeading
    /\ "workExperiences" \in DOMAIN Settings.formToHeading
    /\ Settings.formToHeading["workExperiences"] # DefaultHeading["workExperiences"]
    /\ "projects" \notin DOMAIN Settings.formToHeading
    /\ {"workExperiences", "projects"}
         \subseteq {EmittedSections(result.story)[i] :
                       i \in 1..Len(EmittedSections(result.story))}

FontsOfBlock(b) == {b.fontName, b.boldFontName}

\* nothing but the fonts can make the last call fail
StylesResolvable ==
    ~HexColorRaises(Settings.themeColor) /\ ~FontSizeRaises(Settings.fontSize)

\* C13: under a font family outside the supported set every paragraph and
\* every item header row is set in Helvetica / Helvetica-Bold and the render
\* does not fail; under the supported family OpenSans every paragraph and
\* header row is set in OpenSans / OpenSans-Bold.
C13_FontFamilyResolved ==
    (Called /\ StylesResolvable)
    => IF Settings.fontFamily = OpenSans
       THEN result.kind = "pdf"
            => \A i \in 1..Len(result.story) :
                  result.story[i].type # "Spacer"
                  => FontsOfBlock(result.story[i]) \subseteq {"OpenSans", "OpenSans-Bold"}
       ELSE /\ result.kind = "pdf"
            /\ \A i \in 1..Len(result.story) :
                  FontsOfBlock(result.story[i]) \subseteq BuiltinFonts

\* C14: on a generator constructed without the OpenSans regular or bold
\* file, a render that asks for OpenSans is set in the built-in family and
\* returns a PDF.
C14_MissingFontFallsBack ==
    (/\ Called
     /\ StylesResolvable
     /\ registeredFonts # {"OpenSans", "OpenSans-Bold"}
     /\ Settings.fontFamily = OpenSans)
    => /\ result.kind = "pdf"
       /\ \A i \in 1..Len(result.story) :
             FontsOfBlock(result.story[i]) \subseteq BuiltinFonts

\* C15: a request whose theme color is a string that is neither #RRGGBB nor
\* #RGB -- the empty string included -- is reported by validate_settings and
\* rejected by validate_complete_resume; it is never accepted.
C15_InvalidColorRejected ==
    (/\ operation = "generate_resume"
     /\ Settings.themeColor # NoneStr
     /\ ~COLOR_PATTERN(Settings.themeColor))
    => /\ Len(validate_settings(Settings)) > 0
       /\ ~is_valid(validation_settings, Data)
       /\ response.status = 400

\* the roles set in the body font size
BodyRoles == {"Contact", "BodyText", "ItemHeader", "JobTitle", "Company"}

\* C16: a document that passed validation is rendered with a body font size
\* inside MIN_FONT_SIZE..MAX_FONT_SIZE.
C16_FontSizeInRange ==
    (/\ operation = "generate_resume"
     /\ is_valid(validation_settings, Data)
     /\ result.kind = "pdf")
    => \A i \in 1..Len(result.story) :
          result.story[i].role \in BodyRoles
          => result.story[i].fontSize \in MIN_FONT_SIZE..MAX_FONT_SIZE

\* C17: the endpoint calls generate_resume_pdf only for a request that
\* validate_complete_resume accepted; a request with issues gets 400 with
\* those issues, never 500, and leaves the generator untouched.
C17_ValidatedBeforeBuild ==
    operation = "generate_resume"
    => IF is_valid(validation_settings, Data)
       THEN /\ result.kind \in {"pdf", "error"}
            /\ response.status \in {200, 500}
       ELSE /\ response.status = 400
            /\ response.issues = validate_complete_resume(validation_settings, Data)
            /\ result = NoResult
            /\ cached_styles = cacheBefore

\* a request with issues that would have failed in the fresh generator
C17_Witness ==
    /\ operation = "generate_resume"
    /\ response.status = 400
    /\ Len(response.issues) > 0
    /\ cacheBefore = NoStyles
    /\ HexColorRaises(Settings.themeColor)

\* what a reader sees of a paragraph: the <b> markup sets the category in
\* bold and is not part of the line
PlainPiece(piece) ==
    CASE piece = "<b>" -> ""
      [] piece = ":</b> " -> ": "
      [] OTHER -> piece

PlainText(pieces) == SelectSeq([i \in 1..Len(pieces) |-> PlainPiece(pieces[i])], NotEmpty)

\* "<category>: " and the skills with ", " between them
SkillLine(group) ==
    <<group.category, ": ">>
    \o [k \in 1..(2 * Len(group.skills) - 1) |->
          IF k % 2 = 1 THEN group.skills[(k + 1) \div 2] ELSE ", "]

\* C18: the skills section shows one line per skill group, in input order,
\* reading "<category>: <skills joined by ', '>", and no bullet per skill.
C18_SkillLines ==
    (Rendered /\ Expected(request, Settings, "skills"))
    => LET IsSkillBlock(b) == b.section = "skills" /\ b.role # "SectionHeading"
                              /\ b.type # "Spacer"
           lines == SelectSeq(result.story, IsSkillBlock)
       IN  /\ Len(lines) = Len(Data.skills)
           /\ \A i \in 1..Len(lines) :
                 /\ lines[i].type = "Paragraph"
                 /\ PlainText(lines[i].text) = SkillLine(Data.skills[i])
                 /\ lines[i].text[1] # BULLET

\* a render of two skill groups, one of them with several skills
C18_Witness ==
    /\ Rendered
    /\ Expected(request, Settings, "skills")
    /\ Len(Data.skills) >= 2
    /\ \E i \in 1..Len(Data.skills) : Len(Data.skills[i].skills) >= 3

IsBullet(b) == b.type = "Paragraph" /\ Len(b.text) > 0 /\ b.text[1] = BULLET

\* the pages that carry a part of block i
PagesOf(pages, i) ==
    {p \in 1..Len(pages) : \E k \in 1..Len(pages[p]) : pages[p][k].block = i}

\* the height of a paragraph set on the page of the last result
HeightOf(b) == WrappedLines(b, FrameWidth(result.pagesize)) * Leading(b.role)

\* C19: every bullet that fits on a page is laid out entirely on one page:
\* when it does not fit in what is left of the current page it starts the
\* next page instead of being split across the page break.
C19_NoBulletSplit ==
    Rendered
    => \A i \in 1..Len(result.story) :
          (/\ IsBullet(result.story[i])
           /\ HeightOf(result.story[i]) <= FrameHeight(result.pagesize))
          => Cardinality(PagesOf(result.pages, i)) = 1

\* C20: a document is returned only when its content could be laid out: a
\* bullet taller than one page makes generate_resume_pdf report an error,
\* and a returned document is never empty.
C20_OverflowReported ==
    Rendered
    => /\ Len(result.pages) >= 1
       /\ Len(result.pages[1]) >= 1
       /\ \A i \in 1..Len(result.story) :
             IsBullet(result.story[i])
             => HeightOf(result.story[i]) <= FrameHeight(result.pagesize)

\* ------------------------------------------------------------------------
\* Style roles and the header builder
\* ------------------------------------------------------------------------

\* the style set the last call resolved (it found the cache empty and filled it)
StylesResolved == Called /\ cacheBefore = NoStyles /\ cached_styles # NoStyles

\* C21: in every resolved style set the section heading is 2 points larger
\* than the body font size, heading and name carry the theme color, and the
\* Contact and BodyText roles are black and of the body font size.
C21_RoleSizesAndColors ==
    StylesResolved
    => /\ cached_styles.SectionHeading.fontSize = FontSize(Settings.fontSize) + 2
       /\ cached_styles.SectionHeading.textColor = HexColor(Settings.themeColor)
       /\ cached_styles.Name.textColor = HexColor(Settings.themeColor)
       /\ cached_styles.Contact.textColor = black
       /\ cached_styles.Contact.fontSize = FontSize(Settings.fontSize)
       /\ cached_styles.BodyText.textColor = black
       /\ cached_styles.BodyText.fontSize = FontSize(Settings.fontSize)

\* Personal info that reaches the generator without passing the validator
NoEmail == [Jane EXCEPT !.email = NoneText]

EmptyEmail == [JaneFull EXCEPT !.email = ""]

EmptyName == [JaneFull EXCEPT !.name = ""]

HeaderRequests ==
    { RequestWith(p, present, [DefaultSettings EXCEPT !.themeColor = c]) :
        p \in { Jane, JaneFull, NoEmail, EmptyEmail, EmptyName },
        present \in { {}, {"skills"}, {"workExperiences", "custom"} },
        c \in { AbsentStr, <<"#", "a", "b", "c">> } }

NextHeader == \E req \in HeaderRequests : GenerateResumePdf(req)

SpecHeader == Init /\ [][NextHeader]_vars

\* C22: when the name or the email of the personal info is None or empty
\* as _build_header runs, the build fails instead of emitting a header
\* without that field.
C22_HeaderDefensive ==
    (/\ Called
     /\ \/ ~TruthyText(request.personalInfo.name)
        \/ ~TruthyText(request.personalInfo.email))
    => result.kind = "error"

\* C23: within one render the header row of every item (the title/date
\* table) has the font family and font size of the BodyText bullets of that
\* render, also when the render follows one with other settings.
C23_OneStyleConfiguration ==
    Rendered
    => \A i, j \in 1..Len(result.story) :
          (/\ result.story[i].role = "ItemHeader"
           /\ result.story[j].role = "BodyText")
          => /\ result.story[i].fontName = result.story[j].fontName
             /\ result.story[i].fontSize = result.story[j].fontSize

\* ------------------------------------------------------------------------
\* Configuration: PUT /config and the ConfigManager
\* ------------------------------------------------------------------------

\* one entry of a request body, or none
Entry(present, key, value) == IF present THEN key :> value ELSE EmptyDict

\* Bodies of PUT /config: allowed and other keys in every combination
PutRequests ==
    { Entry(n > 0, <<"validation", "max_work_experiences">>, n)
      @@ Entry(f, <<"pdf_settings", "default_font_size">>, "12")
      @@ Entry(r, <<"validation", "required_fields">>, <<>>)
      @@ Entry(x, <<"secret">>, "x") :
        n \in 0..2, f \in BOOLEAN, r \in BOOLEAN, x \in BOOLEAN }

ConfigRequests ==
    { RequestWith(Jane, present, DefaultSettings) :
        present \in { {"skills"}, {"workExperiences", "custom"} } }

\* a configuration file somebody wrote before the service started
CustomFile == json_dump([validation |-> [max_projects |-> 4]])

\* The service after the startup event of main.py: its load_config created
\* the file from the defaults when there was none and left an existing file
\* as it was, parseable or not.
InitConfig ==
    /\ ServicesConstructed
    /\ registeredFonts = {"OpenSans", "OpenSans-Bold"}
    /\ config_file \in { json_dump(DefaultConfig), CustomFile, InvalidJson }
    /\ fileBefore = config_file

NextConfig ==
    \/ \E updates \in PutRequests, writable \in BOOLEAN : put_config(updates, writable)
    \/ \E req \in ConfigRequests : generate_resume(req)

SpecConfig == InitConfig /\ [][NextConfig]_vars

\* A ConfigManager on its own, called in any order
SetCalls ==
    { [key |-> <<"validation", "max_projects">>, value |-> 3],
      [key |-> <<"extra", "flag">>, value |-> TRUE] }

UpdateCalls ==
    { [validation |-> [max_projects |-> 7]],
      [extra |-> [flag |-> FALSE]] }

InitManager ==
    /\ ServicesConstructed
    /\ registeredFonts = {"OpenSans", "OpenSans-Bold"}
    /\ config_file \in { NoFile, InvalidJson, CustomFile, json_dump(DefaultConfig) }
    /\ fileBefore = config_file

NextManager ==
    \/ \E writable \in BOOLEAN : LoadConfig(writable)
    \/ \E c \in SetCalls : SetConfig(c.key, c.value)
    \/ \E updates \in UpdateCalls, writable \in BOOLEAN : UpdateConfig(updates, writable)

SpecManager == InitManager /\ [][NextManager]_vars

\* constants.ALLOWED_CONFIG_KEYS
ALLOWED_CONFIG_KEYS ==
    { <<"pdf_settings", "default_theme_color">>,
      <<"pdf_settings", "default_font_family">>,
      <<"pdf_settings", "default_font_size">>,
      <<"pdf_settings", "default_document_size">>,
      <<"validation", "max_work_experiences">>,
      <<"validation", "max_educations">>,
      <<"validation", "max_projects">>,
      <<"validation", "max_skills_categories">>,
      <<"validation", "max_description_length">> }

\* the keys of the entries of a configuration
ConfigKeys(cfg) == UNION { { <<s, k>> : k \in DOMAIN cfg[s] } : s \in DOMAIN cfg }

\* whether a configuration has something under a key of one or two parts
HasKey(cfg, key) ==
    /\ Len(key) \in {1, 2}
    /\ key[1] \in DOMAIN cfg
    /\ Len(key) = 2 => key[2] \in DOMAIN cfg[key[1]]

ValueAt(cfg, key) == IF Len(key) = 1 THEN cfg[key[1]] ELSE cfg[key[1]][key[2]]

SameAt(cfg1, cfg2, key) ==
    /\ HasKey(cfg1, key) <=> HasKey(cfg2, key)
    /\ HasKey(cfg1, key) => ValueAt(cfg1, key) = ValueAt(cfg2, key)

\* C24: after any sequence of PUT /config requests the configuration holds
\* entries under allowed keys only; a key of a request outside the allowed
\* list is not in updates_applied and its entry is as it was before.
C24_OnlyAllowedKeysSet ==
    /\ ConfigKeys(config) \subseteq ALLOWED_CONFIG_KEYS
    /\ operation = "put_config"
       => /\ DOMAIN updates_applied \subseteq ALLOWED_CONFIG_KEYS
          /\ \A key \in DOMAIN request \ ALLOWED_CONFIG_KEYS :
                /\ key \notin DOMAIN updates_applied
                /\ SameAt(configBefore, config, key)

C24_Witness ==
    /\ operation = "put_config"
    /\ response.status = 200
    /\ <<"validation", "required_fields">> \in DOMAIN request
    /\ <<"secret">> \in DOMAIN request
    /\ <<"validation", "max_work_experiences">> \in DOMAIN updates_applied
    /\ config # configBefore

\* the configuration as last set was saved: the last PUT /config succeeded
Persisted == config_file = json_dump(config)

\* C25: once a successful PUT /config has set validation.max_work_experiences
\* to N, a resume with more than N work experiences is rejected by the
\* endpoint's validation.
C25_NewLimitApplied ==
    (/\ operation = "generate_resume"
     /\ Persisted
     /\ HasKey(config, <<"validation", "max_work_experiences">>)
     /\ Len(Data.workExperiences) > config.validation.max_work_experiences)
    => /\ response.status = 400
       /\ \E i \in 1..Len(response.issues) :
             response.issues[i] = "Too many work experiences"

\* C26: a PUT /config request leaves every entry of the configuration file,
\* other than the allowed keys the request names, with the value it had.
C26_FileEntriesKept ==
    (operation = "put_config" /\ fileBefore.kind = "json")
    => \A key \in ConfigKeys(fileBefore.data) \ (DOMAIN request \cap ALLOWED_CONFIG_KEYS) :
          /\ config_file.kind = "json"
          /\ SameAt(fileBefore.data, config_file.data, key)

\* C27: default_config and its sections stay as the constructor built them
\* under every sequence of load_config, set and update_config calls.
C27_DefaultConfigNeverModified == default_config = DefaultConfig

\* ------------------------------------------------------------------------
\* The OpenResume wrapper
\* ------------------------------------------------------------------------

\* skills per skill group
MaxSkills == 2

Categories == { <<"L">>, <<"L", ":", " ", "x">> }

SkillTexts == { <<"x">>, <<"y", ",", " ", "z">>, <<"p", ":", " ", "q">> }

SkillGroups ==
    { [category |-> c, skills |-> l] :
        c \in Categories, l \in UNION { [1..n -> SkillTexts] : n \in 0..MaxSkills } }

PlainGroup == [category |-> <<"L">>, skills |-> << <<"x">> >>]

\* parsed resumes: no skill group, any one group, or two plain groups
WrapperData ==
    { [personalInfo    |-> Jane,
       workExperiences |-> ResumeData(RequestWith(Jane, {"workExperiences"},
                                                  DefaultSettings)).workExperiences,
       educations      |-> EducationItems,
       projects        |-> ProjectItems,
       skills          |-> sk,
       custom          |-> [descriptions |-> CustomItems],
       settings        |-> ResumeSettings(DefaultSettings)] :
        sk \in {<<>>, <<PlainGroup, PlainGroup>>} \cup { <<g>> : g \in SkillGroups } }

BridgeOutcomes ==
    { Exited(0, "%PDF-1.4", ""), Exited(1, "", "boom"), Exited(2, "", ""),
      TimeoutExpired, OSError }

TempNames == { "/tmp/tmp1.json", "/tmp/tmp2.json" }

NextWrapper ==
    \/ \E d \in WrapperData : TransformToOpenresumeFormat(d)
    \/ \E d \in WrapperData, path \in TempNames, outcome \in BridgeOutcomes :
          GeneratePdfWithOpenresume(d, path, outcome)

SpecWrapper == InitFontsInstalled /\ [][NextWrapper]_vars

BridgeFailed(outcome) ==
    outcome.kind = "timeout" \/ (outcome.kind = "exit" /\ outcome.returncode # 0)

\* C28: generate_pdf_with_openresume raises and returns no bytes when the
\* bridge times out or exits with a non-zero code, and the temporary file it
\* created does not exist any more when the call is over, however it ended.
C28_BridgeFailuresPropagate ==
    operation = "generate_pdf_with_openresume"
    => /\ wrapperCall.temp_file_path \notin temp_files
       /\ BridgeFailed(wrapperCall.outcome)
          => /\ wrapperCall.returned.kind = "error"
             /\ wrapperCall.returned.bytes = ""
       /\ (wrapperCall.outcome.kind = "exit" /\ wrapperCall.outcome.returncode = 0)
          => wrapperCall.returned = Bytes(wrapperCall.outcome.stdout)

C28_Witness ==
    /\ operation = "generate_pdf_with_openresume"
    /\ wrapperCall.outcome.kind = "exit"
    /\ wrapperCall.outcome.returncode # 0
    /\ wrapperCall.returned.kind = "error"
    /\ Len(wrapperCall.data.skills) > 0

\* C29: the skills of the transformed structure are the skill groups of the
\* resume, in order, each with its category and its list of skills.
C29_SkillsPreserved ==
    operation = "transform_to_openresume_format"
    => wrapperCall.data.skills =
          [i \in 1..Len(request.skills) |->
              [category |-> request.skills[i].category,
               skills   |-> request.skills[i].skills]]

\* C30: the structure transform_to_openresume_format returns passes
\* validate_openresume_data.
C30_TransformedIsValid ==
    operation = "transform_to_openresume_format" => wrapperCall.valid

====
